---- MODULE Spec2Model ----
(***************************************************************************)
(* The light peer chain bridge of trinity:                                 *)
(*   - the request/response event catalog,                                 *)
(*   - LightPeerChainEventBusHandler (the relay on the provider side),     *)
(*   - EventBusLightPeerChain (the facade on the consumer side),           *)
(* over an event bus that correlates a response with the request whose     *)
(* broadcast_config() it was published with.                               *)
(***************************************************************************)
EXTENDS Naturals, Sequences, FiniteSets, TLC

VARIABLES
    started,      \* the service's _run has been called
    cancelled,    \* the service's cancel token has been triggered
    pc,           \* per task: "new", "scheduled", "stream", "provider", "stalled", "exited"
    event,        \* per task: the event the handler's loop body is working on
    stream,       \* per task: the events the bus has queued on the handler's stream()
    calls,        \* the facade calls made so far; the index of a call is the id of its request
    invocations,  \* history, per task: the calls it made on the chain (the provider), in order
    broadcasts,   \* history, per task: the broadcast() calls it made, in order
    delivered     \* the broadcasts <<task, index>> the bus has handed to a waiting request()

vars == <<started, cancelled, pc, event, stream, calls, invocations, broadcasts, delivered>>

\* the most facade calls of one behaviour
MaxCalls == 2

\* the most facade calls of one behaviour in which the bus gives up waits
MaxBusCalls == 1

\* the block hashes and addresses the callers pass; every Python value is a tuple here
Hashes == {<<"hash", 1>>, <<"hash", 2>>}
Addresses == {<<"address", 1>>}

\* Python's None
None == <<"None">>

(***************************************************************************)
(* The event catalog                                                       *)
(***************************************************************************)
RequestTypes ==
    {"GetBlockHeaderByHashRequest", "GetBlockBodyByHashRequest", "GetReceiptsRequest",
     "GetAccountRequest", "GetContractCodeRequest"}

\* Get*Request.expected_response_type(): a static method, it reads no field
expected_response_type(rtype) ==
    CASE rtype = "GetBlockHeaderByHashRequest" -> "BlockHeaderResponse"
      [] rtype = "GetBlockBodyByHashRequest" -> "BlockBodyResponse"
      [] rtype = "GetReceiptsRequest" -> "ReceiptsResponse"
      [] rtype = "GetAccountRequest" -> "AccountResponse"
      [] rtype = "GetContractCodeRequest" -> "BytesResponse"

\* the first dataclass field of a response type (the payload); the second is error
PayloadField(resptype) ==
    CASE resptype = "BlockHeaderResponse" -> "block_header"
      [] resptype = "BlockBodyResponse" -> "block_body"
      [] resptype = "ReceiptsResponse" -> "receipts"
      [] resptype = "AccountResponse" -> "account"
      [] resptype = "BytesResponse" -> "bytez"

\* ResponseType(a1, a2): the dataclass constructor called with two positional arguments
NewResponse(resptype, a1, a2) ==
    [type |-> resptype, payload |-> a1, error |-> a2]

\* a request event as the bus's request() sends it: the fields and the id the bus gave it
NewRequest(rtype, block_hash, address, id) ==
    [type |-> rtype, block_hash |-> block_hash, address |-> address, id |-> id]

NoEvent == NewRequest("none", None, None, 0)

(***************************************************************************)
(* The chain (the provider): one coroutine per query kind.  What a call    *)
(* produces is a function of the operation and its arguments, so that a    *)
(* result computed from other arguments is a different value.              *)
(***************************************************************************)
ChainReturns(op, args) == [raised |-> FALSE, val |-> <<"result", op, args>>]
ChainRaises(op, args) == [raised |-> TRUE, val |-> <<"failure", op, args>>]
Unresolved == [raised |-> FALSE, val |-> <<"unresolved">>]

\* await_and_wrap_errors(awaitable): (val, None) on a result, (None, e) on a failure
await_and_wrap_errors(outcome) ==
    IF outcome.raised THEN <<None, outcome.val>> ELSE <<outcome.val, None>>

(***************************************************************************)
(* LightPeerChainEventBusHandler                                           *)
(***************************************************************************)
\* a slip in _run: the account handler scheduled twice, the contract code handler never
ScheduledHandlersDuplicated ==
    <<"handle_get_blockheader_by_hash_requests",
      "handle_get_blockbody_by_hash_requests",
      "handle_get_receipts_by_hash_requests",
      "handle_get_account_requests",
      "handle_get_account_requests">>

\* _run: the coroutines handed to run_daemon_task, in order
ScheduledHandlers ==
    <<"handle_get_blockheader_by_hash_requests",
      "handle_get_blockbody_by_hash_requests",
      "handle_get_receipts_by_hash_requests",
      "handle_get_account_requests",
      "handle_get_contract_code_requests">>

Tasks == 1..Len(ScheduledHandlers)

HandlerOf(t) == ScheduledHandlers[t]

\* a slip in _run: the last handler started as a bare task the service does not know
IsDaemonTaskButLast(t) == t \in Tasks /\ t # Len(ScheduledHandlers)

\* _run hands every handler to run_daemon_task, which ties the task to the service
IsDaemonTask(t) == t \in Tasks

\* the request type a handler passes to event_bus.stream()
StreamType(h) ==
    CASE h = "handle_get_blockheader_by_hash_requests" -> "GetBlockHeaderByHashRequest"
      [] h = "handle_get_blockbody_by_hash_requests" -> "GetBlockBodyByHashRequest"
      [] h = "handle_get_receipts_by_hash_requests" -> "GetReceiptsRequest"
      [] h = "handle_get_account_requests" -> "GetAccountRequest"
      [] h = "handle_get_contract_code_requests" -> "GetContractCodeRequest"

\* the coroutine of self.chain a handler calls
ProviderOp(h) ==
    CASE h = "handle_get_blockheader_by_hash_requests" -> "coro_get_block_header_by_hash"
      [] h = "handle_get_blockbody_by_hash_requests" -> "coro_get_block_body_by_hash"
      [] h = "handle_get_receipts_by_hash_requests" -> "coro_get_receipts"
      [] h = "handle_get_account_requests" -> "coro_get_account"
      [] h = "handle_get_contract_code_requests" -> "coro_get_contract_code"

\* a slip in a handler: the address passed before the block hash
ProviderArgsSwapped(h, ev) ==
    IF h \in {"handle_get_account_requests", "handle_get_contract_code_requests"}
    THEN <<ev.address, ev.block_hash>>
    ELSE <<ev.block_hash>>

\* the arguments a handler passes to it, read from the event
ProviderArgs(h, ev) ==
    IF h \in {"handle_get_account_requests", "handle_get_contract_code_requests"}
    THEN <<ev.block_hash, ev.address>>
    ELSE <<ev.block_hash>>

\* a slip in a handler: the response type written out, and the wrong one
HandlerResponseFixedType(ev, val, error) ==
    NewResponse("BlockHeaderResponse", val, error)

\* a slip in a handler: the two positional arguments in the wrong order
HandlerResponseSwapped(ev, val, error) ==
    NewResponse(expected_response_type(ev.type), error, val)

\* event.expected_response_type()(val, error)
HandlerResponse(ev, val, error) ==
    NewResponse(expected_response_type(ev.type), val, error)

\* a slip in a handler: the response sent with the config of the newest request
BroadcastConfigNewest(ev) == Len(calls)

\* a slip in a handler: the response sent with a config that names no request
BroadcastConfigUnaddressed(ev) == 0

\* event.broadcast_config(): the bus addresses the response by the request's id
BroadcastConfig(ev) == ev.id

\* the service's cancellation reaches the tasks it runs
Stopping(t) == cancelled /\ IsDaemonTask(t)

\* the loop body run as a task of its own: the next event is taken while the chain is
\* still awaited for the last
AtStreamEager(t) == pc[t] \in {"stream", "provider", "stalled"}

\* one loop for all the kinds: no event is taken while a call on the chain is awaited
AtStreamSerial(t) ==
    /\ pc[t] = "stream"
    /\ \A u \in Tasks : pc[u] \notin {"provider", "stalled"}

\* broadcast() wrapped too: its failure is dropped and the loop goes on
LoopContinuesSwallowed(error, busRaises) == TRUE

\* the chain awaited bare: its failure leaves the loop
LoopContinuesUnwrapped(error, busRaises) == ~busRaises /\ error = None

\* the loop body ends and the `async for` goes on, unless broadcast() raised out of it;
\* the chain's failure is data by then
LoopContinues(error, busRaises) == ~busRaises

\* the handler's loop is suspended in its `async for`, ready for the next event
AtStream(t) == pc[t] = "stream"

\* the bus queues an event on the stream of a task that is subscribed to its type
Subscribed(t, rtype) ==
    /\ pc[t] \in {"stream", "provider", "stalled"}
    /\ StreamType(HandlerOf(t)) = rtype

\* the invocation of the chain a task is waiting on: the last one it made
CurInv(t) == invocations[t][Len(invocations[t])]

(***************************************************************************)
(* EventBusLightPeerChain                                                  *)
(***************************************************************************)
FacadeMethods ==
    {"coro_get_block_header_by_hash", "coro_get_block_body_by_hash", "coro_get_receipts",
     "coro_get_account", "coro_get_contract_code"}

\* the methods that take (block_hash, address); the others take (block_hash)
TwoArgMethods == {"coro_get_account", "coro_get_contract_code"}

\* the request a facade method constructs
FacadeRequestType(m) ==
    CASE m = "coro_get_block_header_by_hash" -> "GetBlockHeaderByHashRequest"
      [] m = "coro_get_block_body_by_hash" -> "GetBlockBodyByHashRequest"
      [] m = "coro_get_receipts" -> "GetReceiptsRequest"
      [] m = "coro_get_account" -> "GetAccountRequest"
      [] m = "coro_get_contract_code" -> "GetContractCodeRequest"

\* a slip in the facade: coro_get_receipts reads the attribute of another response
FacadeFieldCopied(m) ==
    CASE m = "coro_get_block_header_by_hash" -> "block_header"
      [] m = "coro_get_block_body_by_hash" -> "block_body"
      [] m = "coro_get_receipts" -> "block_body"
      [] m = "coro_get_account" -> "account"
      [] m = "coro_get_contract_code" -> "bytez"

\* the attribute of the response a facade method returns
FacadeField(m) ==
    CASE m = "coro_get_block_header_by_hash" -> "block_header"
      [] m = "coro_get_block_body_by_hash" -> "block_body"
      [] m = "coro_get_receipts" -> "receipts"
      [] m = "coro_get_account" -> "account"
      [] m = "coro_get_contract_code" -> "bytez"

Return(v) == [tag |-> "return", val |-> v]
Raise(e) == [tag |-> "raise", val |-> e]
NoResult == [tag |-> "none", val |-> None]

\* a slip in the facade: the error field not looked at
_pass_or_raise_unchecked(response) == Return(response)

\* _pass_or_raise(response)
_pass_or_raise(response) ==
    IF response.error # None THEN Raise(response.error) ELSE Return(response)

\* response.<field>: the attribute exists on the response type that declares it
GetAttr(response, field) ==
    IF PayloadField(response.type) = field
    THEN Return(response.payload)
    ELSE Raise(<<"AttributeError", field>>)

\* what the bus raises out of request() when the wait for the response is given up
BusFailures == {<<"TimeoutError">>, <<"CancelledError">>}

\* a facade that catches what request() raises and waits again
RequestRaisedRetried(e) == NoResult

\* a facade that catches what request() raises and returns None
RequestRaisedAsNone(e) == Return(None)

\* `await self.event_bus.request(...)` raises e: no try stands around it, the facade
\* method raises e
RequestRaised(e) == Raise(e)

\* return self._pass_or_raise(await self.event_bus.request(...)).<field>
FacadeResult(m, response) ==
    LET r == _pass_or_raise(response)
    IN  IF r.tag = "raise" THEN r ELSE GetAttr(r.val, FacadeField(m))

(***************************************************************************)
(* The state machine                                                       *)
(***************************************************************************)
Init ==
    /\ started = FALSE
    /\ cancelled = FALSE
    /\ pc = [t \in Tasks |-> "new"]
    /\ event = [t \in Tasks |-> NoEvent]
    /\ stream = [t \in Tasks |-> <<>>]
    /\ calls = <<>>
    /\ invocations = [t \in Tasks |-> <<>>]
    /\ broadcasts = [t \in Tasks |-> <<>>]
    /\ delivered = {}

\* a _run whose return ends the tasks it scheduled
StartEndingTasks ==
    /\ ~started
    /\ started' = TRUE
    /\ pc' = [t \in Tasks |-> "exited"]
    /\ UNCHANGED <<cancelled, event, stream, calls, invocations, broadcasts, delivered>>

\* LightPeerChainEventBusHandler._run: schedules the five handlers and returns
Start ==
    /\ ~started
    /\ started' = TRUE
    /\ pc' = [t \in Tasks |-> "scheduled"]
    /\ UNCHANGED <<cancelled, event, stream, calls, invocations, broadcasts, delivered>>

\* the scheduled handlers run up to their `async for`, where event_bus.stream()
\* subscribes them: _run schedules them back to back, so the event loop runs their
\* first steps back to back, after whatever was ready before _run scheduled them
Subscribe ==
    /\ \E t \in Tasks : pc[t] = "scheduled"
    /\ pc' = [t \in Tasks |-> IF pc[t] = "scheduled" THEN "stream" ELSE pc[t]]
    /\ UNCHANGED <<started, cancelled, event, stream, calls, invocations, broadcasts, delivered>>

\* a facade that sends its request again: the same request reaches the stream twice
CallRetried(m, block_hash, address) ==
    /\ Len(calls) < MaxCalls
    /\ LET id == Len(calls) + 1
           ev == NewRequest(FacadeRequestType(m), block_hash, address, id)
           to == {t \in Tasks : Subscribed(t, ev.type)}
       IN  /\ calls' = Append(calls, [method |-> m, block_hash |-> block_hash,
                                      address |-> address, state |-> "pending",
                                      result |-> NoResult, routed |-> to])
           /\ stream' = [t \in Tasks |-> IF t \in to THEN stream[t] \o <<ev, ev>>
                                                      ELSE stream[t]]
    /\ UNCHANGED <<started, cancelled, pc, event, invocations, broadcasts, delivered>>

\* a facade method is called: it constructs the request and awaits event_bus.request(),
\* which gives the request its id and sends it to the streams subscribed to its type
Call(m, block_hash, address) ==
    /\ Len(calls) < MaxCalls
    /\ LET id == Len(calls) + 1
           ev == NewRequest(FacadeRequestType(m), block_hash, address, id)
           to == {t \in Tasks : Subscribed(t, ev.type)}
       IN  /\ calls' = Append(calls, [method |-> m, block_hash |-> block_hash,
                                      address |-> address, state |-> "pending",
                                      result |-> NoResult, routed |-> to])
           /\ stream' = [t \in Tasks |-> IF t \in to THEN Append(stream[t], ev) ELSE stream[t]]
    /\ UNCHANGED <<started, cancelled, pc, event, invocations, broadcasts, delivered>>

\* a stream that yields the newest event it holds, not the oldest
ConsumeNewest(t) ==
    /\ AtStream(t)
    /\ stream[t] # <<>>
    /\ ~Stopping(t)
    /\ LET ev == stream[t][Len(stream[t])]
           h == HandlerOf(t)
       IN  /\ event' = [event EXCEPT ![t] = ev]
           /\ invocations' = [invocations EXCEPT ![t] = Append(@,
                  [op |-> ProviderOp(h), args |-> ProviderArgs(h, ev),
                   request |-> ev, outcome |-> Unresolved, done |-> FALSE])]
    /\ stream' = [stream EXCEPT ![t] = SubSeq(@, 1, Len(@) - 1)]
    /\ pc' = [pc EXCEPT ![t] = "provider"]
    /\ UNCHANGED <<started, cancelled, calls, broadcasts, delivered>>

\* the `async for` of a handler yields the next event, and the loop body calls the chain
Consume(t) ==
    /\ AtStream(t)
    /\ stream[t] # <<>>
    /\ ~Stopping(t)
    /\ LET ev == Head(stream[t])
           h == HandlerOf(t)
       IN  /\ event' = [event EXCEPT ![t] = ev]
           /\ invocations' = [invocations EXCEPT ![t] = Append(@,
                  [op |-> ProviderOp(h), args |-> ProviderArgs(h, ev),
                   request |-> ev, outcome |-> Unresolved, done |-> FALSE])]
    /\ stream' = [stream EXCEPT ![t] = Tail(@)]
    /\ pc' = [pc EXCEPT ![t] = "provider"]
    /\ UNCHANGED <<started, cancelled, calls, broadcasts, delivered>>

\* the chain's coroutine resolves with `outcome`; the handler wraps it, constructs the
\* response and calls event_bus.broadcast(), which raises or not; all in one step of
\* the task, there being no suspension between the two awaits.  The loop then goes
\* back to its `async for`, where a cancelled service's task ends
Respond(t, outcome, busRaises) ==
    /\ pc[t] = "provider"
    /\ LET ev == event[t]
           w == await_and_wrap_errors(outcome)
       IN  broadcasts' = [broadcasts EXCEPT ![t] = Append(@,
               [request |-> ev, response |-> HandlerResponse(ev, w[1], w[2]),
                config |-> BroadcastConfig(ev), raised |-> busRaises])]
    /\ invocations' = [invocations EXCEPT ![t][Len(invocations[t])].outcome = outcome,
                                          ![t][Len(invocations[t])].done = TRUE]
    /\ LET goesOn == LoopContinues(await_and_wrap_errors(outcome)[2], busRaises)
       IN  /\ pc' = [pc EXCEPT ![t] = IF goesOn /\ ~Stopping(t) THEN "stream" ELSE "exited"]
           /\ event' = [event EXCEPT ![t] = IF goesOn THEN NoEvent ELSE @]
    /\ UNCHANGED <<started, cancelled, stream, calls, delivered>>

ProviderReturns(t) ==
    /\ pc[t] = "provider"
    /\ Respond(t, ChainReturns(CurInv(t).op, CurInv(t).args), FALSE)

ProviderRaises(t) ==
    /\ pc[t] = "provider"
    /\ Respond(t, ChainRaises(CurInv(t).op, CurInv(t).args), FALSE)

\* event_bus.broadcast() raises: nothing in the handler catches it
BroadcastRaises(t) ==
    /\ pc[t] = "provider"
    /\ \E raised \in BOOLEAN :
         LET inv == CurInv(t)
         IN  Respond(t, IF raised THEN ChainRaises(inv.op, inv.args)
                                  ELSE ChainReturns(inv.op, inv.args), TRUE)

\* the chain's coroutine never resolves
ProviderStalls(t) ==
    /\ pc[t] = "provider"
    /\ pc' = [pc EXCEPT ![t] = "stalled"]
    /\ UNCHANGED <<started, cancelled, event, stream, calls, invocations, broadcasts, delivered>>

\* the bus hands a published response to the request() that waits for its id
Deliver(c) ==
    /\ c \in 1..Len(calls)
    /\ calls[c].state = "pending"
    /\ \E t \in Tasks : \E i \in 1..Len(broadcasts[t]) :
         /\ <<t, i>> \notin delivered
         /\ ~broadcasts[t][i].raised
         /\ broadcasts[t][i].config = c
         /\ delivered' = delivered \cup {<<t, i>>}
         /\ calls' = [calls EXCEPT ![c].state = "done",
                                   ![c].result = FacadeResult(calls[c].method,
                                                              broadcasts[t][i].response)]
    /\ UNCHANGED <<started, cancelled, pc, event, stream, invocations, broadcasts>>

\* the bus gives up the wait of a request(): it times out or is cancelled, and
\* request() raises in the facade method; a response published later finds no waiter
RequestFails(c) ==
    /\ c \in 1..Len(calls)
    /\ calls[c].state = "pending"
    /\ \E e \in BusFailures :
         LET r == RequestRaised(e)
         IN  calls' = [calls EXCEPT ![c].state = IF r = NoResult THEN "pending" ELSE "failed",
                                    ![c].result = r]
    /\ UNCHANGED <<started, cancelled, pc, event, stream, invocations, broadcasts, delivered>>

\* the service is cancelled: its tasks that wait for an event (or to run) end
Stop ==
    /\ started
    /\ ~cancelled
    /\ cancelled' = TRUE
    /\ pc' = [t \in Tasks |-> IF IsDaemonTask(t) /\ pc[t] \in {"scheduled", "stream"}
                                THEN "exited" ELSE pc[t]]
    /\ UNCHANGED <<started, event, stream, calls, invocations, broadcasts, delivered>>

\* a task of the cancelled service that waits on the chain is abandoned there
Exit(t) ==
    /\ Stopping(t)
    /\ pc[t] \in {"provider", "stalled"}
    /\ pc' = [pc EXCEPT ![t] = "exited"]
    /\ UNCHANGED <<started, cancelled, event, stream, calls, invocations, broadcasts, delivered>>

\* the arguments of the next facade call: any method, with an address where the method
\* takes one.  Block hashes are opaque to the bridge and interchangeable, so the callers
\* are taken to use them in order: hash n + 1 is first passed after hash n was
CallInputs ==
    {in \in FacadeMethods \X Hashes \X (Addresses \cup {None}) :
        /\ (in[1] \in TwoArgMethods) <=> (in[3] # None)
        /\ \/ in[2][2] = 1
           \/ \E c \in 1..Len(calls) : calls[c].block_hash[2] = in[2][2] - 1}

Next ==
    \/ Start
    \/ Stop
    \/ \E in \in CallInputs : Call(in[1], in[2], in[3])
    \/ Subscribe
    \/ \E t \in Tasks : Consume(t)
    \/ \E t \in Tasks : ProviderReturns(t)
    \/ \E t \in Tasks : ProviderRaises(t)
    \/ \E t \in Tasks : BroadcastRaises(t)
    \/ \E t \in Tasks : ProviderStalls(t)
    \/ \E t \in Tasks : Exit(t)
    \/ \E c \in 1..MaxCalls : Deliver(c)

Spec == Init /\ [][Next]_vars

\* the bridge on a bus whose request() may give up its wait at any time, for at most
\* MaxBusCalls facade calls
BusNext ==
    \/ Next /\ Len(calls') <= MaxBusCalls
    \/ \E c \in 1..MaxBusCalls : RequestFails(c)

BusSpec == Init /\ [][BusNext]_vars

\* a step of the relay's tasks or of the bus that awaits nothing from outside: a ready
\* task's step, the delivery of a published response, the resolution of a call on the
\* chain that does not stall
Progress ==
    \/ Subscribe
    \/ \E t \in Tasks : Consume(t) \/ ProviderReturns(t) \/ ProviderRaises(t) \/ Exit(t)
    \/ \E c \in 1..MaxCalls : Deliver(c)

\* the event loops do not stop while such a step is ready
Fairness == WF_vars(Progress)

FairSpec == Spec /\ Fairness

\* the bus's policy for a wait comes to act on a request() that still waits
BusFairness == WF_vars(\E c \in 1..MaxBusCalls : RequestFails(c))

FairBusSpec == BusSpec /\ Fairness /\ BusFairness

(***************************************************************************)
(* Properties                                                              *)
(***************************************************************************)
CallIds == 1..Len(calls)

\* the invocations of the chain made for the request of call c, as <<task, index>>
InvocationsFor(c) ==
    {ti \in Tasks \X (1..MaxCalls) :
        /\ ti[2] <= Len(invocations[ti[1]])
        /\ invocations[ti[1]][ti[2]].request.id = c}

InvAt(ti) == invocations[ti[1]][ti[2]]

\* the arguments call c was made with
CallArgs(c) ==
    IF calls[c].method \in TwoArgMethods
    THEN <<calls[c].block_hash, calls[c].address>>
    ELSE <<calls[c].block_hash>>

\* C1: a facade call that has got its answer, and for whose request the chain returned
\* V without failing, has returned exactly V and raised nothing.
C1_SuccessRoundTrip ==
    \A c \in CallIds : \A ti \in InvocationsFor(c) :
        (calls[c].state = "done" /\ InvAt(ti).done /\ ~InvAt(ti).outcome.raised)
            => calls[c].result = Return(InvAt(ti).outcome.val)

\* C1 witness: a coro_get_receipts call has returned the value the chain returned for
\* its block hash.
C1_Witness ==
    \E c \in CallIds : \E ti \in InvocationsFor(c) :
        /\ calls[c].state = "done"
        /\ calls[c].method = "coro_get_receipts"
        /\ InvAt(ti).done /\ ~InvAt(ti).outcome.raised
        /\ calls[c].result.tag = "return"
        /\ calls[c].result.val = <<"result", "coro_get_receipts", <<calls[c].block_hash>>>>

\* C2: a facade call that has got its answer, and for whose request the chain failed
\* with E, has raised E; the unset payload of the response was not returned.
C2_FailureRoundTrip ==
    \A c \in CallIds : \A ti \in InvocationsFor(c) :
        (calls[c].state = "done" /\ InvAt(ti).done /\ InvAt(ti).outcome.raised)
            => /\ calls[c].result = Raise(InvAt(ti).outcome.val)
               /\ calls[c].result # Return(None)

\* C2 witness: a call has raised the failure of the chain.
C2_Witness ==
    \E c \in CallIds : \E ti \in InvocationsFor(c) :
        /\ calls[c].state = "done"
        /\ InvAt(ti).done /\ InvAt(ti).outcome.raised
        /\ calls[c].result.tag = "raise"
        /\ calls[c].result.val = <<"failure", calls[c].method, CallArgs(c)>>

\* the handler of the kind of call c can no longer answer it: the relay is stopped, or
\* the task the request went to is stalled on the chain or has ended
OwnLoopBlocked(c) ==
    \/ cancelled
    \/ \E t \in calls[c].routed : pc[t] \in {"stalled", "exited"}

\* C3: again and again every call whose request reached a handler's stream has
\* completed, unless the relay is stopped or its own kind's handler is stalled or has
\* ended; a handler of another kind that is stalled on the chain for ever does not keep
\* a call from completing.
C3_KindsIndependent ==
    []<>(\A c \in CallIds :
            calls[c].routed # {} => (calls[c].state = "done" \/ OwnLoopBlocked(c)))

\* C3 witness: a handler is stalled on the chain, and a call of another kind made after
\* the request the handler is stalled on has completed.
C3_Witness ==
    \E t \in Tasks : \E c \in CallIds :
        /\ pc[t] = "stalled"
        /\ event[t].id < c
        /\ calls[c].routed # {} /\ t \notin calls[c].routed
        /\ calls[c].state = "done"
        /\ ~cancelled

\* the result the chain gives for the method and arguments of call c itself
OwnResults(c) ==
    {Return(ChainReturns(calls[c].method, CallArgs(c)).val),
     Raise(ChainRaises(calls[c].method, CallArgs(c)).val)}

\* C4: a call that has got its answer got the one computed from its own request's
\* inputs, published with its own request's id; each published response went to at
\* most one call and each call took at most one.
C4_OwnResponse ==
    /\ \A c \in CallIds : calls[c].state = "done" => calls[c].result \in OwnResults(c)
    /\ \A d \in delivered :
          /\ broadcasts[d[1]][d[2]].request.id = broadcasts[d[1]][d[2]].config
          /\ calls[broadcasts[d[1]][d[2]].config].state = "done"
    /\ \A d, e \in delivered :
          broadcasts[d[1]][d[2]].config = broadcasts[e[1]][e[2]].config => d = e

\* C4 witness: two calls of one kind with different block hashes wait together, the
\* responses to both are published, and the later call has taken its own while the
\* earlier one still waits.
C4_Witness ==
    \E c, d \in CallIds :
        /\ c < d
        /\ calls[c].method = calls[d].method
        /\ calls[c].block_hash # calls[d].block_hash
        /\ calls[c].state = "pending" /\ calls[d].state = "done"
        /\ calls[d].result \in OwnResults(d)
        /\ \E t \in Tasks : \E i \in 1..Len(broadcasts[t]) :
              /\ broadcasts[t][i].config = c
              /\ ~broadcasts[t][i].raised
              /\ <<t, i>> \notin delivered

Last(q) == q[Len(q)]

\* C6 as stated: a handler's loop has ended only if the relay was told to stop.
C6_EndsOnlyOnStop ==
    \A t \in Tasks : pc[t] = "exited" => cancelled

\* C6 as amended: a handler's loop has ended only if the relay was told to stop or its
\* last broadcast() raised; a failure of the chain alone never ends it, the loop having
\* published the failure goes on to the next request.
C6_FailureKeepsLoop ==
    \A t \in Tasks :
        /\ pc[t] = "exited" =>
              \/ cancelled
              \/ (broadcasts[t] # <<>> /\ Last(broadcasts[t]).raised)
        /\ (/\ ~cancelled
            /\ broadcasts[t] # <<>>
            /\ ~Last(broadcasts[t]).raised
            /\ Last(broadcasts[t]).response.error # None) => pc[t] \in {"stream", "provider", "stalled"}

\* C6 witness: a handler published the failure of the chain for one request and then
\* took and answered the next request of its kind, with no stop.
C6_Witness ==
    \E t \in Tasks :
        /\ ~cancelled
        /\ Len(broadcasts[t]) = 2
        /\ broadcasts[t][1].response.error # None
        /\ ~broadcasts[t][1].raised /\ ~broadcasts[t][2].raised
        /\ broadcasts[t][1].request.id # broadcasts[t][2].request.id
        /\ pc[t] = "stream"

\* C7: a handler has made exactly one broadcast() per request it took whose call on the
\* chain completed, none for a request still with the chain and none without a request;
\* the broadcast carries the id of that very request, after a failure as after a result.
C7_OneResponsePerRequest ==
    \A t \in Tasks :
        /\ Len(broadcasts[t]) = Cardinality({i \in 1..Len(invocations[t]) : invocations[t][i].done})
        /\ \A i \in 1..Len(invocations[t]) : invocations[t][i].done <=> i <= Len(broadcasts[t])
        /\ \A i \in 1..Len(broadcasts[t]) :
              /\ broadcasts[t][i].config = invocations[t][i].request.id
              /\ broadcasts[t][i].request = invocations[t][i].request
        /\ \A i, j \in 1..Len(broadcasts[t]) :
              broadcasts[t][i].config = broadcasts[t][j].config => i = j

\* C7 witness: a handler has published a response after a failure of the chain and one
\* after a result, each with the id of its request.
C7_Witness ==
    \E t \in Tasks :
        /\ Len(broadcasts[t]) = 2
        /\ broadcasts[t][1].response.error # None
        /\ broadcasts[t][2].response.error = None
        /\ broadcasts[t][1].config = 1
        /\ broadcasts[t][2].config = 2

\* the binding of the catalog, as the claim lists it
BoundResponse ==
    [r \in RequestTypes |->
        CASE r = "GetBlockHeaderByHashRequest" -> "BlockHeaderResponse"
          [] r = "GetBlockBodyByHashRequest" -> "BlockBodyResponse"
          [] r = "GetReceiptsRequest" -> "ReceiptsResponse"
          [] r = "GetAccountRequest" -> "AccountResponse"
          [] r = "GetContractCodeRequest" -> "BytesResponse"]

\* C8: every response a handler has published is of the type bound to the type of the
\* request it answers, whatever the request's fields; the binding gives each request
\* type one response type.
C8_BoundResponseType ==
    /\ \A t \in Tasks : \A i \in 1..Len(broadcasts[t]) :
          /\ broadcasts[t][i].request.type \in RequestTypes
          /\ broadcasts[t][i].response.type = BoundResponse[broadcasts[t][i].request.type]
    /\ \A r \in RequestTypes : expected_response_type(r) = BoundResponse[r]

\* C8 witness: responses to two GetContractCodeRequest events with different block
\* hashes are published, both of type BytesResponse.
C8_Witness ==
    \E t \in Tasks :
        /\ Len(broadcasts[t]) = 2
        /\ \A i \in 1..2 : /\ broadcasts[t][i].request.type = "GetContractCodeRequest"
                           /\ broadcasts[t][i].response.type = "BytesResponse"
        /\ broadcasts[t][1].request.block_hash # broadcasts[t][2].request.block_hash

\* C9: a published response carries the chain's failure as error and no payload when
\* the chain failed, the chain's result as payload and no error when it returned; never
\* both.
C9_PayloadOrError ==
    \A t \in Tasks : \A i \in 1..Len(broadcasts[t]) :
        LET r == broadcasts[t][i].response
            o == invocations[t][i].outcome
        IN  /\ o.raised => (r.error = o.val /\ r.payload = None)
            /\ ~o.raised => (r.payload = o.val /\ r.error = None)
            /\ ~(r.payload # None /\ r.error # None)

\* C9 witness: a handler has published an error response and a payload response.
C9_Witness ==
    \E t \in Tasks :
        /\ Len(broadcasts[t]) = 2
        /\ broadcasts[t][1].response.payload # None
        /\ broadcasts[t][1].response.error = None
        /\ broadcasts[t][2].response.error # None
        /\ broadcasts[t][2].response.payload = None

\* C10: the started relay runs exactly one task per request type, five in all, and every
\* request is taken from the bus by at most one of them.
C10_OneTaskPerKind ==
    started =>
        /\ Cardinality(Tasks) = Cardinality(RequestTypes)
        /\ \A r \in RequestTypes :
              Cardinality({t \in Tasks : pc[t] # "new" /\ StreamType(HandlerOf(t)) = r}) = 1
        /\ \A c \in CallIds : Cardinality(InvocationsFor(c)) <= 1
        /\ \A c \in CallIds : Cardinality(calls[c].routed) <= 1

\* C10 witness: the relay is started, a request of each of two kinds has been taken,
\* each by the one task of its kind.
C10_Witness ==
    /\ started
    /\ \E c, d \in CallIds :
          /\ calls[c].method = "coro_get_account"
          /\ calls[d].method = "coro_get_contract_code"
          /\ Cardinality(InvocationsFor(c)) = 1
          /\ Cardinality(InvocationsFor(d)) = 1

\* the places <<task, index>> on the streams where the request of call c is queued
QueuedFor(c) ==
    {ti \in Tasks \X (1..MaxCalls) :
        /\ ti[2] <= Len(stream[ti[1]])
        /\ stream[ti[1]][ti[2]].id = c}

\* the broadcasts <<task, index>> made for the request of call c
BroadcastsFor(c) ==
    {ti \in Tasks \X (1..MaxCalls) :
        /\ ti[2] <= Len(broadcasts[ti[1]])
        /\ broadcasts[ti[1]][ti[2]].request.id = c}

\* C11: a call is one round trip.  Its one request is on a stream or was taken once, the
\* chain is called at most once for it and exactly once by the time it has its answer
\* (no answer comes from a cache, nor from a second try after a failure), so that two
\* answered calls with the same inputs have two calls on the chain behind them.
C11_OneRoundTrip ==
    /\ \A c \in CallIds :
          /\ Cardinality(QueuedFor(c)) + Cardinality(InvocationsFor(c))
                = Cardinality(calls[c].routed)
          /\ Cardinality(InvocationsFor(c)) <= 1
          /\ Cardinality(BroadcastsFor(c)) <= Cardinality(InvocationsFor(c))
          /\ calls[c].state = "done" =>
                /\ Cardinality(InvocationsFor(c)) = 1
                /\ \A ti \in InvocationsFor(c) : InvAt(ti).done
    /\ \A t \in Tasks :
          Len(invocations[t]) = Cardinality({c \in CallIds : \E ti \in InvocationsFor(c) : ti[1] = t})

\* C11 witness: two calls with the same method and arguments have their answers, the
\* first a failure, and the chain was called twice with these arguments.
C11_Witness ==
    \E c, d \in CallIds : \E t \in Tasks :
        /\ c < d
        /\ calls[c].method = calls[d].method
        /\ CallArgs(c) = CallArgs(d)
        /\ calls[c].state = "done" /\ calls[d].state = "done"
        /\ calls[c].result.tag = "raise"
        /\ Len(invocations[t]) = 2
        /\ invocations[t][1].args = invocations[t][2].args
        /\ invocations[t][1].request.id = c
        /\ invocations[t][2].request.id = d

\* the operation of the chain for each request type, as the claim lists them
OpOfKind ==
    [r \in RequestTypes |->
        CASE r = "GetBlockHeaderByHashRequest" -> "coro_get_block_header_by_hash"
          [] r = "GetBlockBodyByHashRequest" -> "coro_get_block_body_by_hash"
          [] r = "GetReceiptsRequest" -> "coro_get_receipts"
          [] r = "GetAccountRequest" -> "coro_get_account"
          [] r = "GetContractCodeRequest" -> "coro_get_contract_code"]

\* the input fields of a request, in the order the claim lists them
InputFields(ev) ==
    IF ev.type \in {"GetAccountRequest", "GetContractCodeRequest"}
    THEN <<ev.block_hash, ev.address>>
    ELSE <<ev.block_hash>>

\* C14: every call on the chain is the operation of the kind of the request it was made
\* for, with exactly that request's fields (block hash; block hash then address), which
\* are the arguments of the facade call; the requests of one kind are all taken by one
\* task.
C14_OwnOperationOwnFields ==
    /\ \A t \in Tasks : \A i \in 1..Len(invocations[t]) :
          LET inv == invocations[t][i]
          IN  /\ inv.request.type \in RequestTypes
              /\ inv.op = OpOfKind[inv.request.type]
              /\ inv.args = InputFields(inv.request)
              /\ inv.op = calls[inv.request.id].method
              /\ inv.args = CallArgs(inv.request.id)
    /\ \A t, u \in Tasks :
          (/\ invocations[t] # <<>>
           /\ invocations[u] # <<>>
           /\ invocations[t][1].request.type = invocations[u][1].request.type) => t = u
    /\ \A t \in Tasks : \A i \in 1..Len(invocations[t]) :
          invocations[t][i].request.type = invocations[t][1].request.type

\* C14 witness: coro_get_account was called on the chain with a block hash and an
\* address, and coro_get_receipts with the block hash of another request.
C14_Witness ==
    \E t, u \in Tasks :
        /\ invocations[t] # <<>> /\ invocations[u] # <<>>
        /\ invocations[t][1].op = "coro_get_account"
        /\ invocations[t][1].args = <<<<"hash", 1>>, <<"address", 1>>>>
        /\ invocations[u][1].op = "coro_get_receipts"
        /\ invocations[u][1].args = <<<<"hash", 2>>>>

\* the ids of the requests of a history (or a stream), in order
Ids(q) == [i \in 1..Len(q) |-> IF "id" \in DOMAIN q[i] THEN q[i].id ELSE q[i].request.id]

Increasing(q) == \A i, j \in 1..Len(q) : i < j => q[i] < q[j]

\* C15: the bus queues the requests of a kind in the order of their ids; a handler calls
\* the chain, and publishes, in that order: the ids of its chain calls increase, its
\* broadcasts follow its chain calls one for one, and what is still queued is newer than
\* all it has taken.
C15_FifoPerKind ==
    \A t \in Tasks :
        /\ Increasing(Ids(invocations[t]))
        /\ Increasing(Ids(stream[t]))
        /\ Len(broadcasts[t]) <= Len(invocations[t])
        /\ \A i \in 1..Len(broadcasts[t]) :
              broadcasts[t][i].request.id = invocations[t][i].request.id
        /\ \A i \in 1..Len(invocations[t]) : \A j \in 1..Len(stream[t]) :
              invocations[t][i].request.id < stream[t][j].id

\* C15 witness: a handler has answered two requests of its kind, the older first, the
\* second having been queued while the first was with the chain or before.
C15_Witness ==
    \E t \in Tasks :
        /\ Len(broadcasts[t]) = 2
        /\ broadcasts[t][1].request.id = 1
        /\ broadcasts[t][2].request.id = 2
        /\ calls[2].routed = {t}

\* C16: a handler has at most one call on the chain unresolved, its last; every earlier
\* one was answered before the next event was taken; while the chain keeps a handler
\* waiting, the requests queued behind are not taken and their calls get no answer.
C16_OneInFlight ==
    \A t \in Tasks :
        /\ \A i \in 1..Len(invocations[t]) :
              i < Len(invocations[t]) => (invocations[t][i].done /\ i <= Len(broadcasts[t]))
        /\ Len(invocations[t]) - Len(broadcasts[t]) \in {0, 1}
        /\ pc[t] \in {"provider", "stalled"} =>
              /\ Len(invocations[t]) = Len(broadcasts[t]) + 1
              /\ ~CurInv(t).done
              /\ CurInv(t).request = event[t]
              /\ \A j \in 1..Len(stream[t]) :
                    /\ calls[stream[t][j].id].state # "done"
                    /\ BroadcastsFor(stream[t][j].id) = {}
        /\ pc[t] = "stream" => Len(invocations[t]) = Len(broadcasts[t])

\* C16 witness: a handler is stalled on the chain with a later request of its kind
\* queued behind, unanswered.
C16_Witness ==
    \E t \in Tasks :
        /\ pc[t] = "stalled"
        /\ Len(stream[t]) = 1
        /\ stream[t][1].id > event[t].id
        /\ calls[stream[t][1].id].state = "pending"

\* C18: a broadcast() that raised is the last thing its handler did: the loop has ended,
\* the broadcast was not made again, the call of the request has no answer, and nothing
\* was taken from the stream afterwards; a failure of the chain, in contrast, is in the
\* response.
C18_BroadcastFailureEndsLoop ==
    \A t \in Tasks : \A i \in 1..Len(broadcasts[t]) :
        /\ broadcasts[t][i].raised =>
              /\ i = Len(broadcasts[t])
              /\ pc[t] = "exited"
              /\ Len(invocations[t]) = Len(broadcasts[t])
              /\ calls[broadcasts[t][i].request.id].state # "done"
              /\ Cardinality(BroadcastsFor(broadcasts[t][i].request.id)) = 1
        /\ invocations[t][i].outcome.raised =>
              broadcasts[t][i].response.error = invocations[t][i].outcome.val

\* C18 witness: broadcast() raised for a request while a later request of the kind was
\* queued; the loop has ended and both calls wait without an answer.
C18_Witness ==
    \E t \in Tasks :
        /\ ~cancelled
        /\ broadcasts[t] # <<>>
        /\ Last(broadcasts[t]).raised
        /\ pc[t] = "exited"
        /\ stream[t] # <<>>
        /\ \A c \in CallIds : calls[c].state = "pending"
        /\ Len(calls) = 2

\* what a facade call raises when the bus gave up its wait
TransportFailures == {Raise(e) : e \in BusFailures}

\* call c can get no answer any more: its request reached no handler, or the handler
\* that took it is stalled on the chain or has ended without publishing for it
Hopeless(c) ==
    /\ \A d \in delivered : broadcasts[d[1]][d[2]].config # c
    /\ \A ti \in BroadcastsFor(c) : broadcasts[ti[1]][ti[2]].raised
    /\ \/ calls[c].routed = {}
       \/ \E t \in calls[c].routed : pc[t] = "exited"
       \/ \E t \in calls[c].routed : pc[t] = "stalled" /\ event[t].id = c

ResponseResults ==
    UNION {{Return(ChainReturns(m, a).val), Raise(ChainRaises(m, a).val)} :
             m \in FacadeMethods,
             a \in {<<h>> : h \in Hashes} \cup {<<h, x>> : h \in Hashes, x \in Addresses}}

Running == {"scheduled", "stream", "provider", "stalled"}

\* a broadcast() of handler t raised
BusFailed(t) == \E i \in 1..Len(broadcasts[t]) : broadcasts[t][i].raised

====
